---- MODULE Spec2Model ----
(***************************************************************************)
(* A model of src/main.py: the WAV decoder (read_wavfile), the recording   *)
(* loader (read_recording), the metadata reader (read_meta_file) and the   *)
(* Corpus operations (make_corpus, add_speakers, add_accent, add_gender,   *)
(* __len__, __and__).                                                      *)
(*                                                                         *)
(* Python values are modelled as follows.  A str is a sequence of          *)
(* one-character strings; a bytes object is a sequence of 0..255; a call   *)
(* that may raise returns a record [ok |-> TRUE, val |-> v] or             *)
(* [ok |-> FALSE, err |-> <exception name>].  Containers that Python       *)
(* passes by reference (the speakers set and the recordings list of a      *)
(* Corpus) live in a heap and are named by their index in it.              *)
(***************************************************************************)
EXTENDS Integers, Sequences, FiniteSets, TLC

VARIABLES
    file,       \* decoder/loader input: the bytes of the file on disk
    name,       \* loader input: Path(file_path).name
    result,     \* what read_wavfile / read_recording returned or raised
    pc,         \* "call" before the function under study ran, "done" after
    corpora,    \* every Corpus object constructed so far, in order
    sets,       \* heap of set objects: sets[i] is the content of set i
    lists,      \* heap of list objects: lists[i] is the content of list i
    passed,     \* every alias handed to add_speakers along the chain so far
    last        \* the most recent call and its outcome

vars == <<file, name, result, pc, corpora, sets, lists, passed, last>>

Ok(v) == [ok |-> TRUE, val |-> v]

Raise(e) == [ok |-> FALSE, err |-> e]

\* r's value handed to the rest of the function, Then; an exception ends it.
Bind(r, Then(_)) == IF r.ok THEN Then(r.val) ELSE Raise(r.err)

Min(a, b) == IF a < b THEN a ELSE b

Max(a, b) == IF a > b THEN a ELSE b

Range(q) == { q[i] : i \in DOMAIN q }

\* Python's s[lo:hi] for 0-based lo >= 0 and any hi: a negative hi counts
\* from the end, both ends are clipped to the sequence, and an empty or
\* inverted range is the empty sequence (a slice never raises).
PySlice(s, lo, hi) ==
    LET h == IF hi < 0 THEN Max(Len(s) + hi, 0) ELSE Min(hi, Len(s))
        l == Min(lo, Len(s))
    IN  IF l >= h THEN <<>> ELSE SubSeq(s, l + 1, h)

(***************************************************************************)
(* Bounds of the model.                                                    *)
(***************************************************************************)
\* longest PCM payload (bytes after the header) of an input file
MaxPayload == 17

(***************************************************************************)
(* numpy.fromfile on an open binary file, as read_wavfile uses it.         *)
(***************************************************************************)
\* little-endian unsigned value of a byte sequence (uint16, uint32)
RECURSIVE LittleEndian(_)
LittleEndian(bs) ==
    IF bs = <<>> THEN 0 ELSE Head(bs) + 256 * LittleEndian(Tail(bs))

\* The quotient a / b of C, which truncates toward zero (b > 0).
CDiv(a, b) == IF a >= 0 THEN a \div b ELSE -((-a) \div b)

\* np.fromfile(file, dtype, count, offset) with the cursor at pos: seek
\* offset bytes forward from the cursor, then read count items of itemsize
\* bytes (count = -1: as many whole items as remain).  Returns the items (each
\* its bytes, in file order) and the cursor after the read.  A short read
\* returns fewer items; count = -1 with the cursor more than one item past the
\* end asks for an array of negative length, which raises ValueError.
fromfile(f, pos, itemsize, count, offset) ==
    LET start == pos + offset
        avail == IF Len(f) > start THEN (Len(f) - start) \div itemsize ELSE 0
        n     == IF count = -1 THEN avail ELSE Min(count, avail)
    IN  IF count = -1 /\ CDiv(Len(f) - start, itemsize) < 0
        THEN Raise("ValueError")
        ELSE Ok([items |-> [k \in 1..n |->
                              SubSeq(f, start + (k - 1) * itemsize + 1,
                                        start + k * itemsize)],
                 pos   |-> start + n * itemsize])

\* int(np.fromfile(..., count=1, ...)): the scalar of a one-item array;
\* an empty array (short file) raises TypeError.
int_of_array(r) ==
    IF ~r.ok THEN r
    ELSE IF Len(r.val.items) # 1 THEN Raise("TypeError")
    ELSE Ok([value |-> LittleEndian(r.val.items[1]), pos |-> r.val.pos])

(***************************************************************************)
(* WAVFile and read_wavfile.                                               *)
(***************************************************************************)
\* The samples are kept as their bytes (w/8 bytes each, little-endian two's
\* complement): a 64-bit sample does not fit the model checker's integers.
\* duration is the exact quotient num / den that float(data.size / fs) rounds.
WAVFile(bits_per_sample, duration, file_name, fs, n_channels, data) ==
    [bits_per_sample |-> bits_per_sample, duration |-> duration,
     file_name |-> file_name, fs |-> fs, n_channels |-> n_channels,
     data |-> data]

ndarray(dtype, r) ==
    IF ~r.ok THEN r
    ELSE Ok([data |-> [dtype |-> dtype, items |-> r.val.items],
             pos |-> r.val.pos])

\* Mutant of decode_data: an unsupported depth falls back to 16-bit samples.
decode_data_default16(f, pos, bits_per_sample) ==
    IF bits_per_sample = 32 THEN ndarray("int32", fromfile(f, pos, 4, -1, 8))
    ELSE IF bits_per_sample = 64
    THEN ndarray("int64", fromfile(f, pos, 8, -1, 8))
    ELSE ndarray("int16", fromfile(f, pos, 2, -1, 8))

\* Mutant of decode_data: the payload is read right after bits_per_sample.
decode_data_offset0(f, pos, bits_per_sample) ==
    IF bits_per_sample = 16 THEN ndarray("int16", fromfile(f, pos, 2, -1, 0))
    ELSE IF bits_per_sample = 32
    THEN ndarray("int32", fromfile(f, pos, 4, -1, 0))
    ELSE IF bits_per_sample = 64
    THEN ndarray("int64", fromfile(f, pos, 8, -1, 0))
    ELSE Raise("UnboundLocalError")

\* The three if statements that bind data.  For any other depth none of them
\* runs, data stays unbound and its first use (data.size) raises
\* UnboundLocalError.
decode_data(f, pos, bits_per_sample) ==
    IF bits_per_sample = 16 THEN ndarray("int16", fromfile(f, pos, 2, -1, 8))
    ELSE IF bits_per_sample = 32
    THEN ndarray("int32", fromfile(f, pos, 4, -1, 8))
    ELSE IF bits_per_sample = 64
    THEN ndarray("int64", fromfile(f, pos, 8, -1, 8))
    ELSE Raise("UnboundLocalError")

\* The file is opened with the cursor at 0; every read starts where the one
\* before it stopped.  Each name below is the value read and the cursor after
\* it.
read_wavfile(f, file_name) ==
    Bind(int_of_array(fromfile(f, 0, 2, 1, 22)), LAMBDA n_channels :
    Bind(int_of_array(fromfile(f, n_channels.pos, 4, 1, 0)), LAMBDA fs :
    Bind(int_of_array(fromfile(f, fs.pos, 2, 1, 6)), LAMBDA bits_per_sample :
    Bind(decode_data(f, bits_per_sample.pos, bits_per_sample.value),
         LAMBDA data :
        IF fs.value = 0 THEN Raise("ZeroDivisionError")
        ELSE Ok(WAVFile(bits_per_sample.value,
                        [num |-> Len(data.data.items), den |-> fs.value],
                        file_name, fs.value, n_channels.value, data.data))))))

(***************************************************************************)
(* Input files of the decoder.                                             *)
(***************************************************************************)
\* v as k little-endian bytes
RECURSIVE ToBytes(_, _)
ToBytes(v, k) ==
    IF k = 0 THEN <<>> ELSE <<v % 256>> \o ToBytes(v \div 256, k - 1)

\* A canonical 44-byte header followed by n payload bytes.  Every byte that
\* is not one of the three fields carries a value of its own position, so a
\* read that lands elsewhere reads something else.
MakeWav(nch, fs, bps, n) ==
    [i \in 1..(44 + n) |->
        IF i \in 23..24 THEN ToBytes(nch, 2)[i - 22]
        ELSE IF i \in 25..28 THEN ToBytes(fs, 4)[i - 24]
        ELSE IF i \in 35..36 THEN ToBytes(bps, 2)[i - 34]
        ELSE IF i <= 44 THEN 200 + i
        ELSE (7 * (i - 44)) % 256]

\* Whole files and files cut short anywhere.
WavInputs ==
    { PySlice(MakeWav(nch, fs, bps, n), 0, cut) :
        nch \in {1, 2}, fs \in {0, 8000, 16000},
        bps \in {8, 16, 24, 32, 64}, n \in {0, 1, 2, 7, 8, MaxPayload},
        cut \in {0, 23, 24, 28, 35, 36, 42, 43, 44, 44 + MaxPayload} }

SomeName == <<"3", "_", "j", "k", "_", "7", ".", "w", "a", "v">>

NotACorpus(t) == [kind |-> t, ref |-> 0]

\* the shape of last: the call, its operands and arguments, how it ended
\* ("ok" or the exception), the Corpus it returned (0: none) and how many
\* files it handed to read_recording
Call(op, self, other, speakers, text, outcome, res, reads) ==
    [op |-> op, self |-> self, other |-> other, speakers |-> speakers,
     text |-> text, outcome |-> outcome, res |-> res, reads |-> reads]

NoCall == Call("none", 0, NotACorpus("None"), <<>>, <<>>, "ok", 0, 0)

NoCorpusState ==
    /\ corpora = <<>>
    /\ sets = <<>>
    /\ lists = <<>>
    /\ passed = {}
    /\ last = NoCall

InitWav ==
    /\ file \in WavInputs
    /\ name = SomeName
    /\ result = [ok |-> FALSE, err |-> "not called"]
    /\ pc = "call"
    /\ NoCorpusState

CallReadWavfile ==
    /\ pc = "call"
    /\ result' = read_wavfile(file, name)
    /\ pc' = "done"
    /\ UNCHANGED <<file, name, corpora, sets, lists, passed, last>>

NextWav == CallReadWavfile

SpecWav == InitWav /\ [][NextWav]_vars

(***************************************************************************)
(* Claims about the WAV decoder.                                           *)
(***************************************************************************)
\* The header fields at their canonical absolute offsets (0-based 22, 24, 34).
AbsChannels(f) == LittleEndian(PySlice(f, 22, 24))
AbsRate(f) == LittleEndian(PySlice(f, 24, 28))
AbsBits(f) == LittleEndian(PySlice(f, 34, 36))

\* The payload from absolute offset 44 cut into whole samples of w bytes.
AbsSamples(f, w) ==
    [k \in 1..((Len(f) - 44) \div w) |->
        PySlice(f, 44 + (k - 1) * w, 44 + k * w)]

DtypeOf(bits) ==
    IF bits = 16 THEN "int16" ELSE IF bits = 32 THEN "int32" ELSE "int64"

\* C9: a file whose bits-per-sample field is not 16, 32 or 64 is never
\* decoded: read_wavfile raises and returns no WAVFile.  For 16, 32 and 64 a
\* returned WAVFile holds the payload as samples of exactly that width.
C9_UnsupportedDepthRaises ==
    pc = "done" =>
        /\ (Len(file) < 36 \/ AbsBits(file) \notin {16, 32, 64}) => ~result.ok
        /\ result.ok =>
            /\ AbsBits(file) \in {16, 32, 64}
            /\ result.val.data.dtype = DtypeOf(AbsBits(file))
            /\ \A k \in DOMAIN result.val.data.items :
                  Len(result.val.data.items[k]) * 8 = AbsBits(file)
            /\ Len(result.val.data.items)
                  = Max(Len(file) - 44, 0) \div (AbsBits(file) \div 8)

\* C9 witness: an 8-bit file was rejected with the unbound-name error.
C9_Witness ==
    /\ pc = "done"
    /\ Len(file) > 44
    /\ AbsBits(file) = 8
    /\ result = Raise("UnboundLocalError")

\* C10: the chain of cursor-relative reads lands on the canonical absolute
\* offsets: channels at 22, sample rate at 24, bits per sample at 34 and the
\* samples from 44 on, for each supported depth; and a whole file with a
\* supported depth and a non-zero rate at those offsets is decoded.
C10_AbsoluteOffsets ==
    pc = "done" =>
        /\ result.ok =>
            /\ result.val.n_channels = AbsChannels(file)
            /\ result.val.fs = AbsRate(file)
            /\ result.val.bits_per_sample = AbsBits(file)
            /\ result.val.data.items
                  = AbsSamples(file, result.val.bits_per_sample \div 8)
        /\ (/\ Len(file) >= 44
            /\ AbsBits(file) \in {16, 32, 64}
            /\ AbsRate(file) # 0) => result.ok

\* C10 witness: a 64-bit file with two whole samples and one byte left over.
C10_Witness ==
    /\ pc = "done"
    /\ result.ok
    /\ result.val.bits_per_sample = 64
    /\ Len(file) = 44 + 17
    /\ Len(result.val.data.items) = 2
    /\ result.val.data.items[2] = PySlice(file, 52, 60)

(***************************************************************************)
(* read_recording: the fields of a Recording parsed from the file name.    *)
(***************************************************************************)
Digits == <<"0", "1", "2", "3", "4", "5", "6", "7", "8", "9">>

IsDigit(c) == \E d \in DOMAIN Digits : Digits[d] = c

DigitValue(c) == (CHOOSE d \in DOMAIN Digits : Digits[d] = c) - 1

\* str.find("."): the 0-based index of the first ".", or -1.
RECURSIVE find_from(_, _)
find_from(s, i) ==
    IF i > Len(s) THEN -1
    ELSE IF s[i] = "." THEN i - 1
    ELSE find_from(s, i + 1)

find_dot(s) == find_from(s, 1)

\* int(s) for a str of the model's characters (digits, letters, "_", "."):
\* one or more digits, where single underscores may stand between digits;
\* anything else, the empty string included, raises ValueError.  acc is the
\* value so far, prev the character before s ("" at the start).
RECURSIVE int_scan(_, _, _)
int_scan(s, acc, prev) ==
    IF s = <<>>
    THEN IF IsDigit(prev) THEN Ok(acc) ELSE Raise("ValueError")
    ELSE IF IsDigit(Head(s))
    THEN int_scan(Tail(s), 10 * acc + DigitValue(Head(s)), Head(s))
    ELSE IF Head(s) = "_" /\ IsDigit(prev) THEN int_scan(Tail(s), acc, "_")
    ELSE Raise("ValueError")

py_int(s) == int_scan(s, 0, "")

Recording(digit, index, speaker, wav) ==
    [digit |-> digit, index |-> index, speaker |-> speaker, wav |-> wav]

\* Mutant of index_text: the index is taken from the 5th character on.
index_text_from4(n) == PySlice(n, 4, find_dot(n))

\* name[5 : name.find(".")]
index_text(n) == PySlice(n, 5, find_dot(n))

\* read_recording on a path whose last component is n and whose bytes are f.
\* name[0] raises IndexError on an empty name; the slices never raise.
read_recording(n, f) ==
    Bind(IF n = <<>> THEN Raise("IndexError") ELSE py_int(<<n[1]>>),
         LAMBDA digit :
    Bind(py_int(index_text(n)), LAMBDA index :
    Bind(read_wavfile(f, n), LAMBDA wav :
        Ok(Recording(digit, index, PySlice(n, 2, 4), wav)))))

(***************************************************************************)
(* Input names of the loader.                                              *)
(***************************************************************************)
\* longest file name before its extension
MaxBody == 6

NameChars == {"3", "7", "j", "_", "."}

RECURSIVE SeqsUpTo(_, _)
SeqsUpTo(S, n) ==
    IF n = 0 THEN {<<>>}
    ELSE LET shorter == SeqsUpTo(S, n - 1)
         IN  shorter \cup { Append(q, c) : q \in shorter, c \in S }

DotWav == <<".", "w", "a", "v">>

NameInputs ==
    { body \o ext : body \in SeqsUpTo(NameChars, MaxBody),
                    ext \in {<<>>, DotWav} }

\* a mono 16-bit file with two samples
GoodWav == MakeWav(1, 8000, 16, 4)

\* an 8-bit file, which the decoder rejects
BadWav == MakeWav(1, 8000, 8, 4)

InitRec ==
    /\ name \in NameInputs
    /\ file \in {GoodWav, BadWav}
    /\ result = [ok |-> FALSE, err |-> "not called"]
    /\ pc = "call"
    /\ NoCorpusState

CallReadRecording ==
    /\ pc = "call"
    /\ result' = read_recording(name, file)
    /\ pc' = "done"
    /\ UNCHANGED <<file, name, corpora, sets, lists, passed, last>>

NextRec == CallReadRecording

SpecRec == InitRec /\ [][NextRec]_vars

(***************************************************************************)
(* Claims about the recording loader.                                      *)
(***************************************************************************)
\* 1-based position of the first "." of n, or Len(n) + 1 when it has none
FirstDot(n) ==
    IF \E i \in DOMAIN n : n[i] = "."
    THEN CHOOSE i \in DOMAIN n :
            n[i] = "." /\ \A j \in 1..(i - 1) : n[j] # "."
    ELSE Len(n) + 1

AllDigits(t) == t # <<>> /\ \A i \in DOMAIN t : IsDigit(t[i])

\* <digit><separator><2-char alias>_<index>.wav: a digit first, "_" fifth,
\* a run of digits from the sixth character to the first ".", then "wav".
MatchesConvention(n) ==
    /\ Len(n) >= 10
    /\ IsDigit(n[1])
    /\ n[5] = "_"
    /\ FirstDot(n) >= 7
    /\ AllDigits(SubSeq(n, 6, FirstDot(n) - 1))
    /\ SubSeq(n, FirstDot(n), Len(n)) = DotWav

\* The text the loader converts to the index: from the sixth character to
\* the first "."; without a "." the last character is dropped too.
IndexField(n) ==
    IF \E i \in DOMAIN n : n[i] = "."
    THEN IF FirstDot(n) >= 7 THEN SubSeq(n, 6, FirstDot(n) - 1) ELSE <<>>
    ELSE IF Len(n) >= 7 THEN SubSeq(n, 6, Len(n) - 1) ELSE <<>>

\* Digits, with single underscores allowed between two digits.
IsIntLiteral(t) ==
    /\ t # <<>>
    /\ \A i \in DOMAIN t : IsDigit(t[i]) \/ t[i] = "_"
    /\ IsDigit(t[1]) /\ IsDigit(t[Len(t)])
    /\ \A i \in 1..(Len(t) - 1) : ~(t[i] = "_" /\ t[i + 1] = "_")

aa == <<"a", "a">>
bb == <<"b", "b">>
dd == <<"d", "d">>

Aliases == {aa, bb, dd}

\* dataset directories (pathlib.Path values, compared as a whole)
Paths == {"d1", "d2"}

FileName(digit, alias, index) ==
    <<digit, "_">> \o alias \o <<"_", index>> \o DotWav

\* A file of the dataset: the Path that glob yields and the bytes behind it.
WavOnDisk(dataset_path, speaker, n, f) ==
    [path |-> [parent |-> <<dataset_path, speaker>>, name |-> n], bytes |-> f]

\* The *.wav files of every speaker directory, in the directory's order.  In
\* d1 the second file of dd has no numeric index; d2 holds files of aa only.
Disk ==
    [dataset_path \in Paths |-> [speaker \in Aliases |->
        IF dataset_path = "d1" /\ speaker = aa
        THEN << WavOnDisk("d1", aa, FileName("1", aa, "0"),
                          MakeWav(1, 8000, 16, 4)),
                WavOnDisk("d1", aa, FileName("2", aa, "1"),
                          MakeWav(2, 16000, 32, 8)) >>
        ELSE IF dataset_path = "d1" /\ speaker = bb
        THEN << WavOnDisk("d1", bb, FileName("3", bb, "0"),
                          MakeWav(1, 8000, 64, 8)) >>
        ELSE IF dataset_path = "d1" /\ speaker = dd
        THEN << WavOnDisk("d1", dd, FileName("4", dd, "0"),
                          MakeWav(1, 8000, 16, 2)),
                WavOnDisk("d1", dd, FileName("5", dd, "j"),
                          MakeWav(1, 8000, 16, 2)) >>
        ELSE IF dataset_path = "d2" /\ speaker = aa
        THEN << WavOnDisk("d2", aa, FileName("6", aa, "0"),
                          MakeWav(1, 16000, 16, 6)) >>
        ELSE << >>]]

\* Path(dataset_path, speaker).glob("*.wav"): the paths of the directory's
\* files.  A speaker without a directory yields nothing.
glob(dataset_path, speaker) ==
    [k \in DOMAIN Disk[dataset_path][speaker] |->
        Disk[dataset_path][speaker][k].path]

AllFiles ==
    UNION { Range(Disk[p][a]) : p \in Paths, a \in Aliases }

\* read_recording of every file of the dataset.  The disk does not change,
\* so reading a path again gives the same result.
DiskRecordings ==
    [path \in { f.path : f \in AllFiles } |->
        LET f == CHOOSE g \in AllFiles : g.path = path
        IN  read_recording(path.name, f.bytes)]

\* read_recording(path) for a path that glob yielded
read_recording_at(path) == DiskRecordings[path]

\* One speaker's entry of the metadata file: the values of its record in
\* file order (the first is the accent list, the third the gender).
MetaValues(accent, gender) == <<accent, <<"3", "0">>, gender>>

english == <<"e", "n", "g", "l", "i", "s", "h">>
ENGLISH == <<"E", "N", "G", "L", "I", "S", "H">>
EnGlIsH == <<"E", "n", "G", "l", "I", "s", "H">>
german  == <<"g", "e", "r", "m", "a", "n">>
Spanish == <<"S", "p", "a", "n", "i", "s", "h">>
engl    == <<"e", "n", "g", "l">>
male    == <<"m", "a", "l", "e">>
Male    == <<"M", "a", "l", "e">>
female  == <<"f", "e", "m", "a", "l", "e">>

\* json.load of the dataset's *.txt file: d1 holds one, d2 holds none.
MetaFiles(dataset_path) ==
    IF dataset_path = "d1"
    THEN << [keys |-> <<aa, bb, dd>>,
             values |-> [a \in Aliases |->
                IF a = aa
                THEN MetaValues(<<"g", "E", "R", "M", "A", "N">>, male)
                ELSE IF a = bb
                THEN MetaValues(ENGLISH \o <<"/">> \o
                                <<"G", "e", "r", "m", "a", "n">>, female)
                ELSE MetaValues(<<"s", "p", "a", "n", "i", "s", "h">>,
                                female)]] >>
    ELSE << >>

\* read_meta_file: the first *.txt of the directory; meta_data[0] raises
\* IndexError when there is none.
read_meta_file(file_path) ==
    IF MetaFiles(file_path) = << >> THEN Raise("IndexError")
    ELSE Ok(MetaFiles(file_path)[1])

(***************************************************************************)
(* str.capitalize and str.split("/"), as add_accent uses them.             *)
(***************************************************************************)
LowerCase == <<"a", "b", "c", "d", "e", "f", "g", "h", "i", "j", "k", "l",
               "m", "n", "o", "p", "q", "r", "s", "t", "u", "v", "w", "x",
               "y", "z">>

UpperCase == <<"A", "B", "C", "D", "E", "F", "G", "H", "I", "J", "K", "L",
               "M", "N", "O", "P", "Q", "R", "S", "T", "U", "V", "W", "X",
               "Y", "Z">>

upper(c) ==
    IF \E i \in DOMAIN LowerCase : LowerCase[i] = c
    THEN UpperCase[CHOOSE i \in DOMAIN LowerCase : LowerCase[i] = c]
    ELSE c

lower(c) ==
    IF \E i \in DOMAIN UpperCase : UpperCase[i] = c
    THEN LowerCase[CHOOSE i \in DOMAIN UpperCase : UpperCase[i] = c]
    ELSE c

\* Mutant of capitalize: only the first character is changed.
capitalize_first_only(t) ==
    [i \in DOMAIN t |-> IF i = 1 THEN upper(t[i]) ELSE t[i]]

\* str.capitalize(): the first character upper-cased, the rest lower-cased
capitalize(t) ==
    [i \in DOMAIN t |-> IF i = 1 THEN upper(t[i]) ELSE lower(t[i])]

\* str.split("/"): the pieces between the slashes, empty ones included.
\* cur is the piece being read.
RECURSIVE split_from(_, _)
split_from(t, cur) ==
    IF t = <<>> THEN <<cur>>
    ELSE IF Head(t) = "/" THEN <<cur>> \o split_from(Tail(t), <<>>)
    ELSE split_from(Tail(t), Append(cur, Head(t)))

split_slash(t) == split_from(t, <<>>)

(***************************************************************************)
(* The heap: Corpus objects and the containers they refer to.              *)
(* H = [corpora, sets, lists]; a Corpus is                                 *)
(* [dataset_path, recordings (a list's index), speakers (a set's index)].  *)
(***************************************************************************)
Heap(c, s, l) == [corpora |-> c, sets |-> s, lists |-> l]

Corpus(dataset_path, recordings, speakers) ==
    [dataset_path |-> dataset_path, recordings |-> recordings,
     speakers |-> speakers]

Rank(S, i) == Cardinality({ j \in S : j <= i })

Nth(S, n) == CHOOSE i \in S : Rank(S, i) = n

\* Reference counting: a container no Corpus refers to any more is freed.
\* The containers left are renumbered in their order of creation.
collect(H) ==
    LET liveS == { H.corpora[k].speakers : k \in DOMAIN H.corpora }
        liveL == { H.corpora[k].recordings : k \in DOMAIN H.corpora }
    IN  Heap([k \in DOMAIN H.corpora |->
                 Corpus(H.corpora[k].dataset_path,
                        Rank(liveL, H.corpora[k].recordings),
                        Rank(liveS, H.corpora[k].speakers))],
             [n \in 1..Cardinality(liveS) |-> H.sets[Nth(liveS, n)]],
             [n \in 1..Cardinality(liveL) |-> H.lists[Nth(liveL, n)]])

\* make_corpus: a new empty list, a new empty set and a Corpus of them.
\* Returns the heap with the two containers and the Corpus (not yet known to
\* any caller).
make_corpus(H, dataset_path) ==
    [H   |-> Heap(H.corpora, Append(H.sets, {}), Append(H.lists, <<>>)),
     obj |-> Corpus(dataset_path, Len(H.lists) + 1, Len(H.sets) + 1)]

\* Mutant of set_union: the operand is updated in place and returned.
set_update(H, sid, elems) ==
    [H   |-> Heap(H.corpora, [H.sets EXCEPT ![sid] = @ \cup elems], H.lists),
     ref |-> sid]

\* set.union(*others): a new set, also when nothing is added.
set_union(H, sid, elems) ==
    [H   |-> Heap(H.corpora, Append(H.sets, H.sets[sid] \cup elems), H.lists),
     ref |-> Len(H.sets) + 1]

\* Mutant of set_intersection: the union of the two sets.
set_intersection_as_union(H, sid, oid) ==
    [H   |-> Heap(H.corpora, Append(H.sets, H.sets[sid] \cup H.sets[oid]),
                  H.lists),
     ref |-> Len(H.sets) + 1]

\* set & set: a new set
set_intersection(H, sid, oid) ==
    [H   |-> Heap(H.corpora, Append(H.sets, H.sets[sid] \cap H.sets[oid]),
                  H.lists),
     ref |-> Len(H.sets) + 1]

\* The order in which a for loop visits a set is not specified: iter is an
\* order of all aliases, and the loop visits the members of S in that order.
iteration(S, iter) == SelectSeq(iter, LAMBDA a : a \in S)

\* every path the loop over the speakers globs, in the order it reads them
RECURSIVE scan(_, _)
scan(dataset_path, speakers) ==
    IF speakers = <<>> THEN <<>>
    ELSE glob(dataset_path, Head(speakers))
            \o scan(dataset_path, Tail(speakers))

\* list lid with one more element
append(H, lid, x) ==
    Heap(H.corpora, H.sets, [H.lists EXCEPT ![lid] = Append(@, x)])

RECURSIVE load(_, _, _, _)
\* Mutant of appended: a file that cannot be read is skipped.
appended_or_skipped(H, lid, files, reads, recording) ==
    IF ~recording.ok THEN load(H, lid, Tail(files), reads + 1)
    ELSE load(append(H, lid, recording.val), lid, Tail(files), reads + 1)

\* one turn of the inner loop: recording is what read_recording returned
appended(H, lid, files, reads, recording) ==
    IF ~recording.ok
    THEN [ok |-> FALSE, err |-> recording.err, H |-> H, reads |-> reads + 1]
    ELSE load(append(H, lid, recording.val), lid, Tail(files), reads + 1)

\* The body of the loops: read each file and append the Recording to list
\* lid.  The first file that cannot be read ends the loop with its exception;
\* the heap is then as the loop left it.
load(H, lid, files, reads) ==
    IF files = <<>> THEN [ok |-> TRUE, H |-> H, reads |-> reads]
    ELSE appended(H, lid, files, reads, read_recording_at(Head(files)))

\* for speaker in new_corpus.speakers: for path in glob: append
rebuild(H, new_corpus, dataset_path, iter) ==
    load(H, new_corpus.recordings,
         scan(dataset_path, iteration(H.sets[new_corpus.speakers], iter)), 0)

\* What a call leaves behind: the heap after reference counting, how the
\* call ended, the index of the Corpus returned (0: none) and the files read.
Returned(r, new_corpus) ==
    IF r.ok
    THEN LET H2 == collect(Heap(Append(r.H.corpora, new_corpus),
                                r.H.sets, r.H.lists))
         IN  [H |-> H2, outcome |-> "ok", res |-> Len(H2.corpora),
              reads |-> r.reads]
    ELSE [H |-> collect(r.H), outcome |-> r.err, res |-> 0,
          reads |-> r.reads]

Failed(H, err) == [H |-> collect(H), outcome |-> err, res |-> 0, reads |-> 0]

(***************************************************************************)
(* The Corpus operations.  Each takes the heap, the index of self among    *)
(* the Corpus objects, its arguments and the iteration order of the run.   *)
(***************************************************************************)
\* Mutant of add_speakers: only the aliases just passed are scanned.
add_speakers_new_only(H, self, speakers, iter) ==
    LET me         == H.corpora[self]
        m          == make_corpus(H, me.dataset_path)
        u          == set_union(m.H, me.speakers, Range(speakers))
        new_corpus == [m.obj EXCEPT !.speakers = u.ref]
        r          == load(u.H, new_corpus.recordings,
                           scan(me.dataset_path,
                                iteration(Range(speakers), iter)), 0)
    IN  Returned(r, Corpus(new_corpus.dataset_path, new_corpus.recordings,
                           new_corpus.speakers))

add_speakers(H, self, speakers, iter) ==
    LET me         == H.corpora[self]
        m          == make_corpus(H, me.dataset_path)
        u          == set_union(m.H, me.speakers, Range(speakers))
        new_corpus == [m.obj EXCEPT !.speakers = u.ref]
        r          == rebuild(u.H, new_corpus, me.dataset_path, iter)
    IN  Returned(r, Corpus(new_corpus.dataset_path, new_corpus.recordings,
                           new_corpus.speakers))

\* the aliases whose accent list holds accent, both capitalized
accent_speakers(meta_dict, accent) ==
    { speaker_alias \in Range(meta_dict.keys) :
        LET speakers_accent == split_slash(meta_dict.values[speaker_alias][1])
            speakers_accent_cap ==
                { capitalize(speakers_accent[i]) : i \in DOMAIN speakers_accent }
        IN  capitalize(accent) \in speakers_accent_cap }

add_accent(H, self, accent, iter) ==
    LET me        == H.corpora[self]
        m         == make_corpus(H, me.dataset_path)
        meta_dict == read_meta_file(me.dataset_path)
    IN  IF ~meta_dict.ok THEN Failed(m.H, meta_dict.err)
        ELSE
        LET u          == set_union(m.H, me.speakers,
                                    accent_speakers(meta_dict.val, accent))
            new_corpus == [m.obj EXCEPT !.speakers = u.ref]
            r          == rebuild(u.H, new_corpus, me.dataset_path, iter)
        IN  Returned(r, Corpus(new_corpus.dataset_path,
                               new_corpus.recordings, new_corpus.speakers))

\* the aliases whose third value is exactly gender
gender_speakers(meta_dict, gender) ==
    { speaker_alias \in Range(meta_dict.keys) :
        meta_dict.values[speaker_alias][3] = gender }

add_gender(H, self, gender, iter) ==
    LET me        == H.corpora[self]
        m         == make_corpus(H, me.dataset_path)
        meta_dict == read_meta_file(me.dataset_path)
    IN  IF ~meta_dict.ok THEN Failed(m.H, meta_dict.err)
        ELSE
        LET u          == set_union(m.H, me.speakers,
                                    gender_speakers(meta_dict.val, gender))
            new_corpus == [m.obj EXCEPT !.speakers = u.ref]
            r          == rebuild(u.H, new_corpus, me.dataset_path, iter)
        IN  Returned(r, Corpus(new_corpus.dataset_path,
                               new_corpus.recordings, new_corpus.speakers))

\* Mutant of __len__: the number of recordings, as its docstring says.
len_of_recordings(H, self) == Len(H.lists[H.corpora[self].recordings])

__len__(H, self) == Cardinality(H.sets[H.corpora[self].speakers])

\* Mutant of __and__: any other operand is taken for an empty Corpus.
and_without_type_check(H, self, other, iter) ==
    LET me == H.corpora[self]
        m  == make_corpus(H, me.dataset_path)
        u  == IF other.kind = "Corpus"
              THEN set_intersection(m.H, me.speakers,
                                    H.corpora[other.ref].speakers)
              ELSE set_union(m.H, m.obj.speakers, {})
        new_corpus == [m.obj EXCEPT !.speakers = u.ref]
        r  == rebuild(u.H, new_corpus, me.dataset_path, iter)
    IN  Returned(r, Corpus(new_corpus.dataset_path, new_corpus.recordings,
                           new_corpus.speakers))

\* other is [kind |-> "Corpus", ref |-> its index] or a value of another
\* type.  For the latter the method returns NotImplemented.
__and__(H, self, other, iter) ==
    LET me == H.corpora[self]
        m  == make_corpus(H, me.dataset_path)
    IN  IF other.kind # "Corpus" THEN Failed(m.H, "NotImplemented")
        ELSE
        LET u  == set_intersection(m.H, me.speakers,
                                   H.corpora[other.ref].speakers)
            new_corpus == [m.obj EXCEPT !.speakers = u.ref]
            r  == rebuild(u.H, new_corpus, me.dataset_path, iter)
        IN  Returned(r, Corpus(new_corpus.dataset_path,
                               new_corpus.recordings, new_corpus.speakers))

\* The expression self & other.  When __and__ returns NotImplemented Python
\* tries the reflected method of other's type; None and str have none, int
\* and set have one that returns NotImplemented for a Corpus; either way the
\* expression raises TypeError.
and_expression(H, self, other, iter) ==
    LET r == __and__(H, self, other, iter)
    IN  IF r.outcome = "NotImplemented"
        THEN [r EXCEPT !.outcome = "TypeError"]
        ELSE r

(***************************************************************************)
(* The program as a state machine: a caller that holds some Corpus         *)
(* objects, calls the operations on them and drops them again.             *)
(***************************************************************************)
\* most Corpus objects alive at once
MaxCorpora == 3

\* most aliases in one add_speakers call
MaxArgs == 2

Orders ==
    { q \in [1..Cardinality(Aliases) -> Aliases] : Range(q) = Aliases }

SpeakerArgs == SeqsUpTo(Aliases, MaxArgs)

AccentArgs == {english, ENGLISH, EnGlIsH, german, Spanish, engl}

GenderArgs == {male, Male, female}

OtherTypes == {"None", "int", "str", "set"}

Operands ==
    { [kind |-> "Corpus", ref |-> k] : k \in DOMAIN corpora }
        \cup { NotACorpus(t) : t \in OtherTypes }

TheHeap == Heap(corpora, sets, lists)

\* the state a call leaves
Leaves(r, op, self, other, speakers, text) ==
    /\ corpora' = r.H.corpora
    /\ sets' = r.H.sets
    /\ lists' = r.H.lists
    /\ last' = Call(op, self, other, speakers, text, r.outcome, r.res, r.reads)
    /\ pc' = "returned"
    /\ UNCHANGED <<file, name, result>>

Init ==
    /\ file = <<>>
    /\ name = <<>>
    /\ result = [ok |-> FALSE, err |-> "not called"]
    /\ pc = "idle"
    /\ NoCorpusState

MakeCorpus ==
    /\ pc = "idle"
    /\ Len(corpora) < MaxCorpora
    /\ \E dataset_path \in Paths :
        LET m == make_corpus(TheHeap, dataset_path)
            H == collect(Heap(Append(m.H.corpora, m.obj), m.H.sets, m.H.lists))
        IN  Leaves([H |-> H, outcome |-> "ok", res |-> Len(H.corpora),
                    reads |-> 0],
                   "make_corpus", 0, NotACorpus("None"), <<>>, <<>>)
    /\ UNCHANGED passed

AddSpeakers ==
    /\ pc = "idle"
    /\ Len(corpora) < MaxCorpora
    /\ \E self \in DOMAIN corpora, speakers \in SpeakerArgs, iter \in Orders :
        Leaves(add_speakers(TheHeap, self, speakers, iter),
               "add_speakers", self, NotACorpus("None"), speakers, <<>>)
    /\ UNCHANGED passed

AddAccent ==
    /\ pc = "idle"
    /\ Len(corpora) < MaxCorpora
    /\ \E self \in DOMAIN corpora, accent \in AccentArgs, iter \in Orders :
        Leaves(add_accent(TheHeap, self, accent, iter),
               "add_accent", self, NotACorpus("None"), <<>>, accent)
    /\ UNCHANGED passed

AddGender ==
    /\ pc = "idle"
    /\ Len(corpora) < MaxCorpora
    /\ \E self \in DOMAIN corpora, gender \in GenderArgs, iter \in Orders :
        Leaves(add_gender(TheHeap, self, gender, iter),
               "add_gender", self, NotACorpus("None"), <<>>, gender)
    /\ UNCHANGED passed

And ==
    /\ pc = "idle"
    /\ Len(corpora) < MaxCorpora
    /\ \E self \in DOMAIN corpora, other \in Operands, iter \in Orders :
        Leaves(and_expression(TheHeap, self, other, iter),
               "and", self, other, <<>>, <<>>)
    /\ UNCHANGED passed

\* The caller drops its reference to a Corpus, which frees the object.
Forget ==
    /\ pc = "idle"
    /\ \E k \in DOMAIN corpora :
        LET H == collect(Heap(SubSeq(corpora, 1, k - 1)
                                \o SubSeq(corpora, k + 1, Len(corpora)),
                              sets, lists))
        IN  /\ corpora' = H.corpora
            /\ sets' = H.sets
            /\ lists' = H.lists
    /\ UNCHANGED <<file, name, result, pc, passed, last>>

\* The caller goes on to its next statement; the record of the call it made
\* is dropped.
Continue ==
    /\ pc = "returned"
    /\ pc' = "idle"
    /\ last' = NoCall
    /\ UNCHANGED <<file, name, result, corpora, sets, lists, passed>>

Next ==
    \/ MakeCorpus
    \/ AddSpeakers
    \/ AddAccent
    \/ AddGender
    \/ And
    \/ Forget
    \/ Continue

Spec == Init /\ [][Next]_vars

(***************************************************************************)
(* A single chain corpus = corpus.add_speakers(...) from an empty Corpus.  *)
(***************************************************************************)
InitChain ==
    /\ file = <<>>
    /\ name = <<>>
    /\ result = [ok |-> FALSE, err |-> "not called"]
    /\ pc = "idle"
    /\ \E dataset_path \in Paths :
        \E m \in {make_corpus(Heap(<<>>, <<>>, <<>>), dataset_path)} :
            /\ corpora = <<m.obj>>
            /\ sets = m.H.sets
            /\ lists = m.H.lists
    /\ passed = {}
    /\ last = NoCall

\* corpus = corpus.add_speakers(*speakers): when the call returns, the name
\* is bound to the new Corpus and the old one is freed; when it raises, the
\* name keeps the old one.
ChainAddSpeakers ==
    \E speakers \in SpeakerArgs, iter \in Orders :
    \E r \in {add_speakers(TheHeap, 1, speakers, iter)} :
    \E H \in {IF r.outcome = "ok"
              THEN collect(Heap(<<r.H.corpora[r.res]>>, r.H.sets, r.H.lists))
              ELSE r.H} :
        /\ corpora' = H.corpora
        /\ sets' = H.sets
        /\ lists' = H.lists
        /\ passed' = IF r.outcome = "ok" THEN passed \cup Range(speakers)
                     ELSE passed
        /\ last' = Call("add_speakers", 1, NotACorpus("None"), speakers, <<>>,
                        r.outcome, IF r.outcome = "ok" THEN 1 ELSE 0, r.reads)
        /\ UNCHANGED <<file, name, result, pc>>

NextChain == ChainAddSpeakers

SpecChain == InitChain /\ [][NextChain]_vars

(***************************************************************************)
(* Claims about the Corpus operations.                                     *)
(***************************************************************************)
CorpusOps == {"add_speakers", "add_accent", "add_gender", "and"}

speakers_of(k) == sets[corpora[k].speakers]

recordings_of(k) == lists[corpora[k].recordings]

\* r is the Recording of disk file f
IsRecordingOf(r, f) ==
    /\ r.wav.file_name = f.path.name
    /\ r.speaker = SubSeq(f.path.name, 3, 4)
    /\ r.wav.bits_per_sample = AbsBits(f.bytes)

\* L holds one Recording for each *.wav file of each speaker of S under
\* dataset_path, none twice, and nothing else.
ExactlyTheFilesOf(L, dataset_path, S) ==
    /\ \A a \in Aliases : \A f \in Range(Disk[dataset_path][a]) :
          Cardinality({ i \in DOMAIN L : IsRecordingOf(L[i], f) })
              = IF a \in S THEN 1 ELSE 0
    /\ \A i \in DOMAIN L : \E a \in S : \E f \in Range(Disk[dataset_path][a]) :
          IsRecordingOf(L[i], f)

\* C1: a call of add_speakers, add_accent, add_gender or & leaves every
\* Corpus that existed before it as it was (path, speakers, recordings), and
\* the Corpus it returns has a speakers set and a recordings list that no
\* other Corpus refers to.
C1_OperandsUntouchedResultFresh ==
    [][(pc' = "returned" /\ last'.op \in CorpusOps) =>
        /\ \A k \in DOMAIN corpora :
            /\ k \in DOMAIN corpora'
            /\ corpora'[k].dataset_path = corpora[k].dataset_path
            /\ sets'[corpora'[k].speakers] = sets[corpora[k].speakers]
            /\ lists'[corpora'[k].recordings] = lists[corpora[k].recordings]
        /\ last'.outcome = "ok" =>
            /\ last'.res = Len(corpora) + 1
            /\ Len(corpora') = Len(corpora) + 1
            /\ \A k \in DOMAIN corpora :
                /\ corpora'[last'.res].speakers # corpora'[k].speakers
                /\ corpora'[last'.res].recordings # corpora'[k].recordings
        /\ last'.outcome # "ok" => Len(corpora') = Len(corpora)]_vars

\* C1 witness: add_speakers() without aliases on a Corpus of aa returned a
\* Corpus with an equal speakers set that is another object.
C1_Witness ==
    /\ pc = "returned"
    /\ last.op = "add_speakers"
    /\ last.speakers = <<>>
    /\ last.outcome = "ok"
    /\ speakers_of(last.self) = {aa}
    /\ speakers_of(last.res) = {aa}
    /\ corpora[last.res].speakers # corpora[last.self].speakers
    /\ corpora[last.res].recordings # corpora[last.self].recordings

\* C2: the recordings of every Corpus are exactly the files of its speakers
\* under its dataset_path: one Recording per file, none of another speaker,
\* no file twice.
C2_RecordingsDerivedFromSpeakers ==
    \A k \in DOMAIN corpora :
        ExactlyTheFilesOf(recordings_of(k), corpora[k].dataset_path,
                          speakers_of(k))

\* C2 witness: add_speakers(bb) on a Corpus of aa returned a Corpus with the
\* two files of aa read again and the file of bb.
C2_Witness ==
    /\ pc = "returned"
    /\ last.op = "add_speakers"
    /\ last.speakers = <<bb>>
    /\ last.outcome = "ok"
    /\ speakers_of(last.self) = {aa}
    /\ corpora[last.self].dataset_path = "d1"
    /\ speakers_of(last.res) = {aa, bb}
    /\ Len(recordings_of(last.res)) = 3

\* C3: for two corpora A and B with the same dataset_path, A & B returns a
\* Corpus whose speakers are those A and B share, whose dataset_path is A's
\* and whose recordings are exactly the files of the shared speakers.
C3_IntersectionOfSpeakers ==
    (/\ pc = "returned"
     /\ last.op = "and"
     /\ last.other.kind = "Corpus"
     /\ corpora[last.other.ref].dataset_path = corpora[last.self].dataset_path)
    =>  /\ last.outcome = "ok"
        /\ speakers_of(last.res)
              = speakers_of(last.self) \cap speakers_of(last.other.ref)
        /\ corpora[last.res].dataset_path = corpora[last.self].dataset_path
        /\ ExactlyTheFilesOf(recordings_of(last.res),
                             corpora[last.self].dataset_path,
                             speakers_of(last.self)
                                \cap speakers_of(last.other.ref))

\* C3 witness: {aa, bb} & {aa, dd} in d2 returned a Corpus of aa alone.
C3_Witness ==
    /\ pc = "returned"
    /\ last.op = "and"
    /\ last.other.kind = "Corpus"
    /\ last.outcome = "ok"
    /\ corpora[last.self].dataset_path = "d2"
    /\ corpora[last.other.ref].dataset_path = "d2"
    /\ speakers_of(last.self) = {aa, bb}
    /\ speakers_of(last.other.ref) = {aa, dd}
    /\ speakers_of(last.res) = {aa}
    /\ Len(recordings_of(last.res)) = 1

C5_NonCorpusOperandRaises ==
    (pc = "returned" /\ last.op = "and" /\ last.other.kind # "Corpus")
    =>  /\ last.outcome = "TypeError"
        /\ last.res = 0
        /\ last.reads = 0

\* C5 witness: a Corpus of aa and bb was intersected with an int.
C5_Witness ==
    /\ pc = "returned"
    /\ last.op = "and"
    /\ last.other = NotACorpus("int")
    /\ last.outcome = "TypeError"
    /\ speakers_of(last.self) = {aa, bb}

\* every file of every speaker in S under dataset_path can be read
AllReadable(dataset_path, S) ==
    \A a \in S : \A f \in Range(Disk[dataset_path][a]) :
        read_recording(f.path.name, f.bytes).ok

\* C6: a call that fails returns no Corpus and leaves every Corpus as it
\* was; a call that returns a Corpus has read every file of every speaker of
\* it; and add_speakers with dd in d1, whose second file has no index,
\* fails with ValueError.
C6_NoPartialCorpus ==
    [][(pc' = "returned" /\ last'.op \in CorpusOps) =>
        /\ last'.outcome # "ok" =>
            /\ last'.res = 0
            /\ corpora' = corpora
            /\ sets' = sets
            /\ lists' = lists
        /\ last'.outcome = "ok" =>
            \A k \in {last'.res} :
                /\ AllReadable(corpora'[k].dataset_path,
                               sets'[corpora'[k].speakers])
                /\ Len(lists'[corpora'[k].recordings])
                      = Len(scan(corpora'[k].dataset_path,
                                 iteration(sets'[corpora'[k].speakers],
                                           <<aa, bb, dd>>)))
        /\ (/\ last'.op = "add_speakers"
            /\ corpora[last'.self].dataset_path = "d1"
            /\ dd \in Range(last'.speakers)) => last'.outcome = "ValueError"]_vars

\* C6 witness: add_accent("Spanish") on a Corpus of aa in d1 selected dd,
\* read files up to dd's second one and raised ValueError.
C6_Witness ==
    /\ pc = "returned"
    /\ last.op = "add_accent"
    /\ last.text = Spanish
    /\ last.outcome = "ValueError"
    /\ last.res = 0
    /\ last.reads >= 2
    /\ speakers_of(last.self) = {aa}
    /\ Len(recordings_of(last.self)) = 2

\* first letter upper-cased, the rest lower-cased
NormalForm(t) ==
    IF t = <<>> THEN <<>>
    ELSE <<upper(t[1])>> \o [i \in 1..(Len(t) - 1) |-> lower(t[i + 1])]

\* the entries of a slash-separated list: the slash-free runs between two
\* slashes or ends
ListEntries(t) ==
    { SubSeq(t, i, j) : i \in 1..(Len(t) + 1), j \in 0..Len(t) } \cap
    { SubSeq(t, i, j) : i \in { x \in 1..(Len(t) + 1) :
                                  x = 1 \/ t[x - 1] = "/" },
                        j \in { y \in 0..Len(t) :
                                  y = Len(t) \/ t[y + 1] = "/" } }

SlashFree(t) == \A i \in DOMAIN t : t[i] # "/"

\* the aliases of the d1 metadata whose accent list has an entry with the
\* normal form of accent
AccentMatches(accent) ==
    { a \in Aliases :
        \E e \in ListEntries(MetaFiles("d1")[1].values[a][1]) :
            SlashFree(e) /\ NormalForm(e) = NormalForm(accent) }

\* C7: add_accent returns the receiver's speakers united with every alias
\* whose accent list has an entry equal to the argument after both are
\* capitalized, so arguments with the same capitalized form select the same
\* speakers; "english", "ENGLISH" and "EnGlIsH" all add bb.
C7_AccentCaseFolding ==
    (pc = "returned" /\ last.op = "add_accent" /\ last.outcome = "ok")
    =>  /\ speakers_of(last.res)
              = speakers_of(last.self) \cup AccentMatches(last.text)
        /\ last.text \in {english, ENGLISH, EnGlIsH}
              => speakers_of(last.res) = speakers_of(last.self) \cup {bb}

\* C7 witness: add_accent("EnGlIsH") on a Corpus of aa returned aa and bb.
C7_Witness ==
    /\ pc = "returned"
    /\ last.op = "add_accent"
    /\ last.text = EnGlIsH
    /\ last.outcome = "ok"
    /\ speakers_of(last.self) = {aa}
    /\ speakers_of(last.res) = {aa, bb}

====
